---------------------------- MODULE Spec2Model ----------------------------
(***************************************************************************)
(* A model of the rest-layer core: the schema package's Prepare/Validate   *)
(* (src/schema/schema.go) and the per-route request handlers               *)
(* (src/unnamed/part_000).                                                 *)
(*                                                                         *)
(* Values.  A Go interface{} value is a tagged record: [leaf |-> name] for *)
(* a scalar (the nil value and the Tombstone sentinel are two of them) and *)
(* [map |-> f] for a map[string]interface{}; a map is a function from      *)
(* field names to values.  A slot that holds no value is Absent.           *)
(***************************************************************************)
EXTENDS Integers, Sequences, FiniteSets, TLC

Leaf(x) == [leaf |-> x]
Nil == Leaf("nil")
Dict(m) == [map |-> m]
Absent == [absent |-> TRUE]
EmptyMap == [k \in {} |-> Nil]

\* schema.go:13  var Tombstone = internal{}
Tombstone == Leaf("tombstone")

\* value.(map[string]interface{})
IsDict(v) == "map" \in DOMAIN v

\* v, found := m[k]
Found(m, k) == k \in DOMAIN m
Get(m, k) == IF k \in DOMAIN m THEN m[k] ELSE Nil
Slot(m, k) == IF k \in DOMAIN m THEN m[k] ELSE Absent
IsSet(s) == "absent" \notin DOMAIN s

\* The map holding the slots that are set (slots: key -> value or Absent).
FromSlots(slots) ==
    [k \in {f \in DOMAIN slots : IsSet(slots[f])} |-> slots[k]]

\* m with the entries of over laid on top.
Overlay(m, over) ==
    [k \in DOMAIN m \cup DOMAIN over |-> IF k \in DOMAIN over THEN over[k] ELSE m[k]]

(***************************************************************************)
(* Field definitions and schemas.  A Field carries Default (Nil: none),    *)
(* Required, ReadOnly, Hidden, Validator, OnInit, OnUpdate and Schema, as  *)
(* schema.go reads them; a Schema carries Fields, MinLen and MaxLen.       *)
(***************************************************************************)
NoValidator == "none"
NoHook == "none"
NoSchema == [nil |-> TRUE]
HasSchema(def) == "Fields" \in DOMAIN def.Schema

\* def.Validator.Validate(value): the normalising validator accepts the
\* canonical values "u" and "g" (what a hook generates) and the value "w",
\* which it normalises to "u"; it rejects everything else (nil,
\* sub-documents, other scalars).
FieldValidate(validator, value) ==
    IF value = Leaf("u") \/ value = Leaf("w") THEN [ok |-> TRUE, v |-> Leaf("u")]
    ELSE IF value = Leaf("g") THEN [ok |-> TRUE, v |-> value]
    ELSE [ok |-> FALSE, v |-> value]

\* hook(ctx, value): a generator hook such as Now or NewID, whose result does
\* not depend on the value handed in.
HookApply(hook, value) == Leaf("g")

(***************************************************************************)
(* Schema.Prepare, schema.go:102-221.  The loop over s.Fields treats each  *)
(* field on its own, so the model computes one (changes, base) slot pair   *)
(* per field and assembles the two maps from them.                         *)
(***************************************************************************)

\* replaceOmitted that marks every omitted field for removal.
replaceOmitted_Tombstone(def, oValue) == Tombstone

\* schema.go:143-149: replace mode, field in the original, not in the payload.
replaceOmitted(def, oValue) ==
    IF def.Hidden /\ ~def.ReadOnly THEN oValue
    ELSE IF def.Required /\ def.Default # Nil THEN def.Default
    ELSE Tombstone

\* updateFound without the comparison with the original: every submitted
\* value is a change.
updateFound_Always(def, value, oFound, oValue) ==
    IF def.Validator # NoValidator
    THEN LET r == FieldValidate(def.Validator, value) IN
         IF ~r.ok THEN value ELSE r.v
    ELSE value

\* schema.go:124-136: the field is in the payload of an update; the change
\* slot (Absent when the value is identical to the original's).
updateFound(def, value, oFound, oValue) ==
    IF def.Validator # NoValidator
    THEN LET r == FieldValidate(def.Validator, value) IN
         IF ~r.ok THEN value
         ELSE IF ~oFound \/ r.v # oValue THEN r.v ELSE Absent
    ELSE IF ~oFound \/ value # oValue THEN value ELSE Absent

\* prepareValue that takes an explicit null of a new document for a value.
prepareValue_NullCopied(def, field, payload, original, replace) ==
    LET found == Found(payload, field)
        value == Get(payload, field)
    IN  IF ~IsSet(original)
        THEN IF ~found
             THEN [c |-> Absent,
                   b |-> IF def.Default # Nil THEN def.Default ELSE Absent]
             ELSE [c |-> value, b |-> Absent]
        ELSE LET oFound == Found(original.map, field)
                 oValue == Get(original.map, field)
             IN  [c |-> IF found THEN updateFound(def, value, oFound, oValue)
                        ELSE IF oFound /\ replace THEN replaceOmitted(def, oValue)
                        ELSE Absent,
                  b |-> IF oFound THEN oValue ELSE Absent]

\* schema.go:107-154: the change and base slots before sub-schema and hooks.
\* original is Absent (nil) or Dict(the original map).
prepareValue(def, field, payload, original, replace) ==
    LET found == Found(payload, field)
        value == Get(payload, field)
    IN  IF ~IsSet(original)
        THEN IF ~found \/ value = Nil
             THEN [c |-> Absent,
                   b |-> IF def.Default # Nil THEN def.Default ELSE Absent]
             ELSE [c |-> value, b |-> Absent]
        ELSE LET oFound == Found(original.map, field)
                 oValue == Get(original.map, field)
             IN  [c |-> IF found THEN updateFound(def, value, oFound, oValue)
                        ELSE IF oFound /\ replace THEN replaceOmitted(def, oValue)
                        ELSE Absent,
                  b |-> IF oFound THEN oValue ELSE Absent]

\* schema.go:163  oValue.(*map[string]interface{}): documents hold their
\* sub-documents as map[string]interface{} (the JSON decoder and validate,
\* line 315, produce no pointer), so the assertion to a pointer fails.
IsDictPtr(v) == FALSE

\* schema.go:157-166: the original handed to the sub-schema's Prepare.
subOriginalOf(field, original) ==
    IF ~IsSet(original) THEN Absent
    ELSE LET oValue == Get(original.map, field) IN
         IF IsDictPtr(oValue) THEN oValue ELSE Dict(EmptyMap)

\* schema.go:190-195: the hook that applies.
hookOf(def, original) ==
    IF ~IsSet(original) THEN def.OnInit ELSE def.OnUpdate

hookName(original) == IF ~IsSet(original) THEN "OnInit" ELSE "OnUpdate"

\* applyHook that treats a Tombstone as any other change value.
applyHook_OnTombstone(def, original, cb) ==
    LET hook == hookOf(def, original)
        baseArg == IF IsSet(cb.b) THEN cb.b ELSE Nil
    IN  IF hook = NoHook THEN [c |-> cb.c, b |-> cb.b, calls |-> << >>]
        ELSE IF IsSet(cb.c)
        THEN [c |-> HookApply(hook, cb.c), b |-> cb.b,
              calls |-> << [hook |-> hookName(original), arg |-> cb.c] >>]
        ELSE [c |-> Absent, b |-> HookApply(hook, baseArg),
              calls |-> << [hook |-> hookName(original), arg |-> baseArg] >>]

\* schema.go:196-211: the slots after the hook, and the hook's invocations.
applyHook(def, original, cb) ==
    LET hook == hookOf(def, original)
        baseArg == IF IsSet(cb.b) THEN cb.b ELSE Nil
    IN  IF hook = NoHook THEN [c |-> cb.c, b |-> cb.b, calls |-> << >>]
        ELSE IF IsSet(cb.c)
        THEN IF cb.c = Tombstone
             THEN [c |-> Absent, b |-> HookApply(hook, baseArg),
                   calls |-> << [hook |-> hookName(original), arg |-> baseArg] >>]
             ELSE [c |-> HookApply(hook, cb.c), b |-> cb.b,
                   calls |-> << [hook |-> hookName(original), arg |-> cb.c] >>]
        ELSE [c |-> Absent, b |-> HookApply(hook, baseArg),
              calls |-> << [hook |-> hookName(original), arg |-> baseArg] >>]

RECURSIVE Prepare(_, _, _, _)

\* schema.go:155-187: the slots after the sub-schema's Prepare.
prepareSub(def, field, payload, original, replace, cb) ==
    IF ~HasSchema(def) THEN cb
    ELSE LET subOriginal == subOriginalOf(field, original)
             found == Found(payload, field)
             value == Get(payload, field)
         IN  IF found
             THEN IF IsDict(value)
                  THEN LET p == Prepare(def.Schema, value.map, subOriginal, replace)
                       IN  [c |-> Dict(p.changes), b |-> Dict(p.base)]
                  ELSE cb
             ELSE LET p == Prepare(def.Schema, EmptyMap, subOriginal, replace)
                  IN  IF DOMAIN p.changes # {} \/ DOMAIN p.base # {}
                      THEN [c |-> Dict(p.changes), b |-> Dict(p.base)]
                      ELSE cb

\* schema.go:105-212: one iteration of the loop over s.Fields.
prepareField(def, field, payload, original, replace) ==
    applyHook(def, original,
              prepareSub(def, field, payload, original, replace,
                         prepareValue(def, field, payload, original, replace)))

\* schema.go:108-110: log.Panic, inside the loop over the declared fields.
preparePanics(s, original, replace) ==
    ~IsSet(original) /\ replace /\ DOMAIN s.Fields # {}

\* outOfSchema that leaves the undeclared fields out of changes.
outOfSchema_Dropped(s, payload) == EmptyMap

\* schema.go:215-219: the payload's fields the schema does not declare.
outOfSchema(s, payload) ==
    [f \in DOMAIN payload \ DOMAIN s.Fields |-> payload[f]]

\* schema.go:102-221
Prepare(s, payload, original, replace) ==
    IF preparePanics(s, original, replace)
    THEN [panic |-> TRUE, changes |-> EmptyMap, base |-> EmptyMap, calls |-> EmptyMap]
    ELSE LET r == [f \in DOMAIN s.Fields |->
                     prepareField(s.Fields[f], f, payload, original, replace)]
         IN  [panic |-> FALSE,
              changes |-> Overlay(FromSlots([f \in DOMAIN r |-> r[f].c]),
                                  outOfSchema(s, payload)),
              base |-> FromSlots([f \in DOMAIN r |-> r[f].b]),
              calls |-> [f \in DOMAIN r |-> r[f].calls]]

(***************************************************************************)
(* Schema.Validate, schema.go:226-338.  errs maps a field name (the root   *)
(* is the empty name) to the list of its errors; an error is [msg |-> m],  *)
(* [msg |-> m, n |-> bound] or, for a sub-document, [sub |-> errs].        *)
(***************************************************************************)
Msg(m) == [msg |-> m]
RootKey == ""

\* schema.go:340-342 over a whole pass: the map of the non-empty lists.
addFieldErrors(lists) ==
    [k \in {f \in DOMAIN lists : lists[f] # << >>} |-> lists[k]]

\* schema.go:344-349
mergeFieldErrors(errs, mergeErrs) ==
    [k \in DOMAIN errs \cup DOMAIN mergeErrs |->
        (IF k \in DOMAIN errs THEN errs[k] ELSE << >>)
        \o (IF k \in DOMAIN mergeErrs THEN mergeErrs[k] ELSE << >>)]

\* schema.go:280  s.validateDependencies: the fields of the model declare no
\* Dependency, so no dependency error arises.
validateDependencies(s, changes, doc) == EmptyMap

\* schema.go:235-239
readOnlyErrors(def, field, changes) ==
    IF def.ReadOnly /\ Found(changes, field) THEN << Msg("read-only") >> ELSE << >>

\* schema.go:241-251
requiredErrors(def, field, changes, base) ==
    LET found == Found(changes, field)
        value == Get(changes, field)
    IN  IF def.Required /\ (~found \/ value = Nil \/ value = Tombstone)
        THEN IF found THEN << Msg("required") >>
             ELSE IF ~Found(base, field) \/ Get(base, field) = Nil
                  THEN << Msg("required") >>
                  ELSE << >>
        ELSE << >>

\* schema.go:266-276: base copied, changes laid over it, tombstones deleted.
mergeDoc(changes, base) ==
    LET all == Overlay(base, changes)
    IN  [k \in {f \in DOMAIN all : all[f] # Tombstone} |-> all[k]]

\* tooMany with the bound off by one.
tooMany_OffByOne(s, l) == s.MaxLen > 0 /\ l > s.MaxLen + 1

\* schema.go:329 and 333: the size bounds on the document's field count.
tooFew(s, l) == l < s.MinLen
tooMany(s, l) == s.MaxLen > 0 /\ l > s.MaxLen

\* schema.go:328-337
sizeErrors(s, l) ==
    IF tooFew(s, l) THEN << [msg |-> "has fewer properties than", n |-> s.MinLen] >>
    ELSE IF tooMany(s, l) THEN << [msg |-> "has more properties than", n |-> s.MaxLen] >>
    ELSE << >>

\* schema.go:296-310: the sub-map of m for field (empty when field is absent
\* or holds no map) and the "not a dict" error.
subMapOf(m, field) ==
    IF Found(m, field) /\ IsDict(m[field]) THEN m[field].map ELSE EmptyMap
notADict(m, field) ==
    IF Found(m, field) /\ ~IsDict(m[field]) THEN << Msg("not a dict") >> ELSE << >>

RECURSIVE validate(_, _, _, _)

\* schema.go:254-263: a sub-schema nobody provided is validated on empty maps.
absentSubErrors(def, field, changes, base) ==
    IF HasSchema(def) /\ ~Found(changes, field) /\ ~Found(base, field)
    THEN LET sub == validate(def.Schema, EmptyMap, EmptyMap, FALSE)
         IN  IF DOMAIN sub.errs # {} THEN << [sub |-> sub.errs] >> ELSE << >>
    ELSE << >>

\* schema.go:283-327: one iteration of the loop over doc: the field's errors
\* and the value doc holds for it afterwards.
validateField(s, field, value, changes, base) ==
    IF ~Found(s.Fields, field)
    THEN [errs |-> << Msg("invalid field") >>, v |-> value]
    ELSE LET def == s.Fields[field] IN
         IF HasSchema(def)
         THEN LET sub == validate(def.Schema, subMapOf(changes, field),
                                  subMapOf(base, field), FALSE)
                  dictErrs == notADict(changes, field) \o notADict(base, field)
              IN  IF DOMAIN sub.errs # {}
                  THEN [errs |-> dictErrs \o << [sub |-> sub.errs] >>, v |-> value]
                  ELSE [errs |-> dictErrs, v |-> Dict(sub.doc)]
         ELSE IF def.Validator # NoValidator
         THEN LET r == FieldValidate(def.Validator, value)
              IN  IF ~r.ok THEN [errs |-> << Msg("invalid value") >>, v |-> value]
                  ELSE [errs |-> << >>, v |-> r.v]
         ELSE [errs |-> << >>, v |-> value]

\* schema.go:230-338.  A nil document is returned as isNil with an empty doc.
validate(s, changes, base, isRoot) ==
    LET pre == [f \in DOMAIN s.Fields |->
                  readOnlyErrors(s.Fields[f], f, changes)
                  \o requiredErrors(s.Fields[f], f, changes, base)
                  \o absentSubErrors(s.Fields[f], f, changes, base)]
        merged == mergeDoc(changes, base)
        deps == IF isRoot THEN validateDependencies(s, changes, merged) ELSE EmptyMap
        post == [f \in DOMAIN merged |-> validateField(s, f, merged[f], changes, base)]
        doc == [f \in DOMAIN merged |-> post[f].v]
        l == Cardinality(DOMAIN doc)
        errs == mergeFieldErrors(
                    mergeFieldErrors(
                        mergeFieldErrors(addFieldErrors(pre), deps),
                        addFieldErrors([f \in DOMAIN post |-> post[f].errs])),
                    addFieldErrors([k \in {RootKey} |-> sizeErrors(s, l)]))
    IN  IF tooFew(s, l) \/ tooMany(s, l)
        THEN [isNil |-> TRUE, doc |-> EmptyMap, errs |-> errs]
        ELSE [isNil |-> FALSE, doc |-> doc, errs |-> errs]

\* schema.go:226-228
Validate(s, changes, base) == validate(s, changes, base, TRUE)

(***************************************************************************)
(* The schemas, documents and payloads the checks range over.              *)
(***************************************************************************)
\* The largest MinLen and MaxLen a schema of the model declares.
MaxSize == 1

PlainDef ==
    [Default |-> Nil, Required |-> FALSE, ReadOnly |-> FALSE, Hidden |-> FALSE,
     Validator |-> NoValidator, OnInit |-> NoHook, OnUpdate |-> NoHook,
     Schema |-> NoSchema]

\* Every leaf field: each flag, a default, a validator and the hooks, on or off.
LeafDefs ==
    [Default : {Nil, Leaf("u")}, Required : BOOLEAN, ReadOnly : BOOLEAN,
     Hidden : BOOLEAN, Validator : {NoValidator, "norm"},
     OnInit : {NoHook, "gen"}, OnUpdate : {NoHook, "gen"}, Schema : {NoSchema}]

\* The leaf fields of a sub-schema.
SubLeafDefs ==
    {d \in LeafDefs : ~d.ReadOnly /\ ~d.Hidden /\ d.Validator = NoValidator
                      /\ d.OnInit = NoHook /\ d.OnUpdate = NoHook}

Sizes == 0 .. MaxSize

\* Schemas of two leaf fields: a, any leaf field, and b, a plain one.
FlatSchemas ==
    {[Fields |-> [a |-> d, b |-> PlainDef], MinLen |-> mn, MaxLen |-> mx] :
        d \in LeafDefs, mn \in Sizes, mx \in Sizes}

SubSchemas ==
    {[Fields |-> [x |-> d, y |-> PlainDef], MinLen |-> mn, MaxLen |-> mx] :
        d \in SubLeafDefs, mn \in Sizes, mx \in Sizes}

\* Schemas of one field s that carries a sub-schema of two leaf fields.
NestedSchemas ==
    {[Fields |-> [s |-> [PlainDef EXCEPT !.Required = req, !.Schema = sub]],
      MinLen |-> 0, MaxLen |-> 0] :
        req \in BOOLEAN, sub \in SubSchemas}

\* The schema that declares no field.
EmptySchema == [Fields |-> EmptyMap, MinLen |-> 0, MaxLen |-> 0]

Schemas == FlatSchemas \cup NestedSchemas \cup {EmptySchema}

IsNested(s) == "s" \in DOMAIN s.Fields

\* Maps from a subset of keys to the values vals[k] allowed for each key k.
MapsOver(vals) ==
    UNION {{m \in [S -> UNION {vals[k] : k \in DOMAIN vals}] :
               \A k \in S : m[k] \in vals[k]} : S \in SUBSET DOMAIN vals}

\* Payloads as a client submits them; z is a field no schema declares.
SubPayloads == MapsOver([x |-> {Nil, Leaf("u"), Leaf("w")}, y |-> {Leaf("u")}])
FlatPayloads ==
    MapsOver([a |-> {Nil, Leaf("u"), Leaf("w")}, b |-> {Leaf("u")}, z |-> {Leaf("u")}])
NestedPayloads ==
    MapsOver([s |-> {Leaf("u")} \cup {Dict(p) : p \in SubPayloads}, z |-> {Leaf("u")}])
Payloads(s) == IF IsNested(s) THEN NestedPayloads ELSE FlatPayloads

\* (changes, base) pairs handed to Validate directly.
FlatChanges ==
    MapsOver([a |-> {Nil, Leaf("u"), Leaf("w"), Tombstone}, b |-> {Leaf("u")},
              z |-> {Leaf("u")}])
FlatBases == MapsOver([a |-> {Nil, Leaf("u")}, b |-> {Leaf("u")}])
SubChanges == MapsOver([x |-> {Leaf("u"), Tombstone}, y |-> {Leaf("u")}])
SubBases == MapsOver([x |-> {Leaf("u")}])
NestedChanges == MapsOver([s |-> {Leaf("u")} \cup {Dict(p) : p \in SubChanges}])
NestedBases == MapsOver([s |-> {Dict(p) : p \in SubBases}])
ChangeSets(s) == IF IsNested(s) THEN NestedChanges ELSE FlatChanges
BaseSets(s) == IF IsNested(s) THEN NestedBases ELSE FlatBases

(***************************************************************************)
(* The request handlers, src/unnamed/part_000.  A handler is modelled by   *)
(* the list of events it produces: its backend calls and the responses it  *)
(* sends, in program order.                                                *)
(***************************************************************************)
\* The latest time an item's Updated takes or a conditional header names.
MaxTime == 2
Times == 1 .. MaxTime

Modes == {"Read", "List", "Create", "Replace", "Update", "Delete", "Clear"}

\* route.resource.conf.isModeAllowed(mode)
isModeAllowed(c, mode) == mode \in c.AllowedModes

\* Errors, as sendError receives them.
Error(code, name) == [code |-> code, name |-> name]
InvalidMethodError == Error(405, "Invalid method")
NotFoundError == Error(404, "Not Found")
PreconditionFailedError == Error(412, "Precondition Failed")
ConflictError == Error(409, "Conflict")
StorageError == Error(500, "storage")
DecodeError == Error(400, "decodePayload")
LookupError == Error(422, "lookup")
ReferenceError == Error(404, "checkReferences")
NoError == Error(0, "nil")

\* Responses.
SendError(err) == [ev |-> "sendError", status |-> err.code, err |-> err.name]
SendItem(status, item) == [ev |-> "sendItem", status |-> status, item |-> item]
Send(status) == [ev |-> "send", status |-> status]
SendList(list) == [ev |-> "sendList", status |-> 200, list |-> list]
\* r.res.Header().Set("Allow", ...): the answer to OPTIONS.
SetAllow(methods) == [ev |-> "allow", methods |-> methods]

\* Backend calls.
CallFind(lookupOk, page, perPage) ==
    [ev |-> "Find", lookup |-> lookupOk, page |-> page, perPage |-> perPage]
CallInsert(item, err) == [ev |-> "Insert", item |-> item, err |-> err.name]
CallUpdate(item, original, err) ==
    [ev |-> "Update", item |-> item, original |-> original, err |-> err.name]
CallDelete(original, err) ==
    [ev |-> "Delete", original |-> original, err |-> err.name]
CallClear(total, err) == [ev |-> "Clear", total |-> total, err |-> err.name]

\* Steps inside a handler that the claims speak of.
DidIntegrity(err) == [ev |-> "checkIntegrityRequest", err |-> err.name]
DidPrepare(original, replace) ==
    [ev |-> "Prepare", original |-> original, replace |-> replace]
DidValidate(errs) == [ev |-> "Validate", ok |-> DOMAIN errs = {}]

IsResponse(e) == e.ev \in {"sendError", "sendItem", "send", "sendList", "allow"}
IsMutation(e) == e.ev \in {"Insert", "Update", "Delete", "Clear"}
IsBackendCall(e) == e.ev = "Find" \/ IsMutation(e)

(***************************************************************************)
(* Items and the storage backend.                                          *)
(***************************************************************************)
NilItem == [nil |-> TRUE]
IsItem(i) == "ID" \in DOMAIN i

\* The entity tag: a fingerprint of the document's content.
genEtag(doc) == [hash |-> doc]

\* NewItem(doc): the item of a validated document, or an error when the
\* document carries no id.
NewItem(doc, now) ==
    IF "id" \notin DOMAIN doc THEN [err |-> TRUE, item |-> NilItem]
    ELSE [err |-> FALSE,
          item |-> [ID |-> doc["id"], ETag |-> genEtag(doc), Updated |-> now,
                    Payload |-> doc]]

\* The id of the item URL the item requests address.
RouteID == Leaf("u")

\* route.applyFields(base): the route's fields (the id of an item URL) are
\* set in base.
applyFields(target, base) ==
    IF target = "item" THEN Overlay(base, [id |-> RouteID]) ELSE base

EmptyStore == [item |-> NilItem, others |-> {}]

\* handler.Find(lookup, 1, 1, ctx) on an item URL: the items found.
findItem(st) == IF IsItem(st.item) THEN << st.item >> ELSE << >>

\* handler.Find(lookup, page, perPage, ctx) on the collection: the IDs listed.
findList(st) ==
    (IF IsItem(st.item) THEN {st.item.ID} ELSE {}) \cup st.others

\* handler.Update(item, original, ctx) and handler.Delete(original, ctx):
\* the stored version must still be the original's, compared by entity tag.
casError(st, original) ==
    IF ~IsItem(st.item) \/ st.item.ETag # original.ETag
    THEN PreconditionFailedError ELSE NoError

\* handler.Insert(items, ctx): an ID already stored is a conflict.
insertError(st, item) ==
    IF item.ID \in findList(st) THEN ConflictError ELSE NoError

insertInto(st, item) ==
    IF item.ID = RouteID THEN [st EXCEPT !.item = item]
    ELSE [st EXCEPT !.others = @ \cup {item.ID}]

NoHeader == [none |-> TRUE]
BadTime == [bad |-> TRUE]
HTime(t) == [t |-> t]
NoParam == [none |-> TRUE]
BadParam == [bad |-> TRUE]
Param(n) == [n |-> n]

\* r.checkIntegrityRequest(original): If-Match and If-Unmodified-Since
\* against the fetched item.
checkIntegrityRequest(q, original) ==
    IF q.ifMatch = NoHeader /\ q.ifUnmod = NoHeader THEN NoError
    ELSE IF ~IsItem(original) THEN NotFoundError
    ELSE IF q.ifMatch # NoHeader /\ original.ETag # q.ifMatch
         THEN PreconditionFailedError
    ELSE IF q.ifUnmod = NoHeader THEN NoError
    ELSE IF q.ifUnmod = BadTime THEN Error(400, "Invalid If-Unmodified-Since header")
    ELSE IF original.Updated > q.ifUnmod.t THEN PreconditionFailedError
    ELSE NoError

\* r.checkReferences(ctx, doc, schema): the reference-check collaborator.
checkReferences(q) == IF q.fault = "ref" THEN ReferenceError ELSE NoError

\* route.lookup(): fails on a malformed query.
lookupFails(q) == q.fault = "lookup"

\* r.decodePayload(&payload): fails on a malformed body.
decodeFails(q) == q.fault = "decode"

\* The result of a handler step: the events it adds, where the request
\* stands afterwards, the store and the item it holds as original.
Outcome(events, next, st, original) ==
    [events |-> events, next |-> next, store |-> st, fetched |-> original]

Done(events, st) == Outcome(events, "done", st, NilItem)

(***************************************************************************)
(* handleRoute, part_000:13-98.                                            *)
(***************************************************************************)
\* part_000:18-33: the Allow header of an item URL.
itemAllow(c) ==
    (IF isModeAllowed(c, "Read") THEN << "HEAD", "GET" >> ELSE << >>)
    \o (IF isModeAllowed(c, "Create") \/ isModeAllowed(c, "Replace")
        THEN << "PUT" >> ELSE << >>)
    \o (IF isModeAllowed(c, "Update") THEN << "PATCH" >> ELSE << >>)
    \o (IF isModeAllowed(c, "Update") THEN << "DELETE" >> ELSE << >>)

\* part_000:65-75: the Allow header of a collection URL.
listAllow(c) ==
    (IF isModeAllowed(c, "List") THEN << "HEAD", "GET" >> ELSE << >>)
    \o (IF isModeAllowed(c, "Create") THEN << "POST" >> ELSE << >>)
    \o (IF isModeAllowed(c, "Clear") THEN << "DELETE" >> ELSE << >>)

\* part_000:14-97: what handleRoute does with the request before it calls a
\* handler: "allow" (OPTIONS), "reject" (InvalidMethodError) or "handle".
routeGate(c, q) ==
    IF q.method = "OPTIONS" THEN "allow"
    ELSE IF q.target = "item"
    THEN CASE q.method \in {"HEAD", "GET"} ->
                IF isModeAllowed(c, "Read") THEN "handle" ELSE "reject"
           [] q.method = "PUT" ->
                IF ~isModeAllowed(c, "Create") /\ ~isModeAllowed(c, "Replace")
                THEN "reject" ELSE "handle"
           [] q.method = "PATCH" ->
                IF isModeAllowed(c, "Update") THEN "handle" ELSE "reject"
           [] q.method = "DELETE" ->
                IF isModeAllowed(c, "Delete") THEN "handle" ELSE "reject"
           [] OTHER -> "reject"
    ELSE CASE q.method \in {"HEAD", "GET"} ->
                IF isModeAllowed(c, "List") THEN "handle" ELSE "reject"
           [] q.method = "POST" ->
                IF isModeAllowed(c, "Create") THEN "handle" ELSE "reject"
           [] q.method = "DELETE" ->
                IF isModeAllowed(c, "Clear") THEN "handle" ELSE "reject"
           [] OTHER -> "reject"

\* part_000:17-33 and 64-75: OPTIONS.
handleOPTIONS(c, q, st) ==
    Done(<< SetAllow(IF q.target = "item" THEN itemAllow(c) ELSE listAllow(c)) >>, st)

\* part_000:36, 42, 48, 54, 59, 78, 84, 90, 95
rejectMethod(st) == Done(<< SendError(InvalidMethodError) >>, st)

\* The response to a route.lookup() error that is sent without a return
\* (part_000:183-185, 197-199, 237-239, 326-328, 379-381).
lookupEvents(q) ==
    IF lookupFails(q) THEN << SendError(LookupError) >> ELSE << >>

\* handler.Find fails: on a storage failure, and, when env says so, on the
\* nil lookup that a failed route.lookup() leaves behind.
findFails(q, env) == q.fault = "find" \/ (lookupFails(q) /\ env.nilLookup = "err")

(***************************************************************************)
(* handleItemRequestGET, part_000:195-225.                                 *)
(***************************************************************************)
\* conditionalGET that takes an item updated at the client's time for newer.
conditionalGET_Strict(q, item) ==
    IF q.ifNoneMatch = item.ETag THEN Send(304)
    ELSE IF q.ifModSince = NoHeader THEN SendItem(200, item)
    ELSE IF q.ifModSince = BadTime
         THEN SendError(Error(400, "Invalid If-Modified-Since header"))
    ELSE IF item.Updated < q.ifModSince.t THEN Send(304)
    ELSE SendItem(200, item)

\* part_000:210-224: the answer for the item found.
conditionalGET(q, item) ==
    IF q.ifNoneMatch = item.ETag THEN Send(304)
    ELSE IF q.ifModSince = NoHeader THEN SendItem(200, item)
    ELSE IF q.ifModSince = BadTime
         THEN SendError(Error(400, "Invalid If-Modified-Since header"))
    ELSE IF item.Updated <= q.ifModSince.t THEN Send(304)
    ELSE SendItem(200, item)

handleItemRequestGET(q, st, env) ==
    LET pre == lookupEvents(q) \o << CallFind(~lookupFails(q), 1, 1) >>
        l == findItem(st)
    IN  IF findFails(q, env) THEN Done(pre \o << SendError(StorageError) >>, st)
        ELSE IF Len(l) = 0 THEN Done(pre \o << SendError(NotFoundError) >>, st)
        ELSE Done(pre \o << conditionalGET(q, l[1]) >>, st)

(***************************************************************************)
(* handleListRequestGET, part_000:101-142.                                 *)
(***************************************************************************)
\* r.skipBody: set for a HEAD request.
skipBody(q) == q.method = "HEAD"

\* defaultPerPage that ignores the resource's default page size.
defaultPerPage_Unbounded(c) == -1

\* part_000:105-110
defaultPerPage(c) ==
    IF c.PaginationDefaultLimit > 0 THEN c.PaginationDefaultLimit ELSE -1

\* part_000:102-126: page and perPage as parsed ("bad": a parse error).
parsePage(q) ==
    IF skipBody(q) \/ q.page = NoParam THEN 1
    ELSE IF q.page = BadParam THEN -2 ELSE q.page.n
parsePerPage(c, q) ==
    IF skipBody(q) THEN 0
    ELSE IF q.limit = NoParam THEN defaultPerPage(c)
    ELSE IF q.limit = BadParam THEN -2 ELSE q.limit.n

\* part_000:127-129: the page parameter is used while pagination is disabled.
pageWithoutLimit(q, page, perPage) == ~skipBody(q) /\ perPage = -1 /\ page # 1

\* part_000:131-141: lookup, Find and the list sent.
listFind(q, st, env, page, perPage) ==
    IF lookupFails(q) THEN << SendError(LookupError) >>
    ELSE IF findFails(q, env)
         THEN << CallFind(TRUE, page, perPage), SendError(StorageError) >>
    ELSE << CallFind(TRUE, page, perPage), SendList(findList(st)) >>

handleListRequestGET(c, q, st, env) ==
    LET page == parsePage(q)
        perPage == parsePerPage(c, q)
    IN  IF ~skipBody(q) /\ q.page = BadParam
        THEN Done(<< SendError(Error(422, "Invalid page parameter")) >>, st)
        ELSE IF ~skipBody(q) /\ q.limit = BadParam
        THEN Done(<< SendError(Error(422, "Invalid limit parameter")) >>, st)
        ELSE Done((IF pageWithoutLimit(q, page, perPage)
                   THEN << SendError(Error(422, "Cannot use page parameter with no limit")) >>
                   ELSE << >>)
                  \o listFind(q, st, env, page, perPage), st)

(***************************************************************************)
(* handleListRequestPOST, part_000:145-178.                                *)
(***************************************************************************)
ValidationError == Error(422, "Document contains error(s)")

\* hasErrors that finds none.
hasErrors_Never(errs) == FALSE

\* part_000:156, 278 and 351: len(errs) > 0
hasErrors(errs) == DOMAIN errs # {}

\* part_000:171-177: Insert and the answer.
insertAndSend(q, st, item, status) ==
    LET err == IF q.fault = "store" THEN StorageError ELSE insertError(st, item)
    IN  IF err # NoError
        THEN Done(<< CallInsert(item, err), SendError(err) >>, st)
        ELSE Done(<< CallInsert(item, NoError), SendItem(status, item) >>,
                  insertInto(st, item))

\* With events in front of what an outcome holds.
After(events, out) == [out EXCEPT !.events = events \o @]

handleListRequestPOST(s, q, st, env) ==
    IF decodeFails(q) THEN Done(<< SendError(DecodeError) >>, st)
    ELSE LET p == Prepare(s, q.payload, Absent, FALSE)
             v == Validate(s, p.changes, applyFields("list", p.base))
             n == NewItem(v.doc, env.now)
             steps == << DidPrepare(Absent, FALSE), DidValidate(v.errs) >>
         IN  IF hasErrors(v.errs)
             THEN Done(steps \o << SendError(ValidationError) >>, st)
             ELSE IF checkReferences(q) # NoError
             THEN Done(steps \o << SendError(checkReferences(q)) >>, st)
             ELSE IF n.err
             THEN Done(steps \o << SendError(Error(500, "NewItem")) >>, st)
             ELSE After(steps, insertAndSend(q, st, n.item, 201))

(***************************************************************************)
(* handleListRequestDELETE, part_000:181-192.                              *)
(***************************************************************************)
handleListRequestDELETE(q, st, env) ==
    LET total == Cardinality(findList(st))
        fails == q.fault = "store" \/ (lookupFails(q) /\ env.nilLookup = "err")
    IN  IF fails
        THEN Done(lookupEvents(q)
                  \o << CallClear(0, StorageError), SendError(StorageError) >>, st)
        ELSE Done(lookupEvents(q) \o << CallClear(total, NoError), Send(204) >>,
                  EmptyStore)

(***************************************************************************)
(* handleItemRequestPUT, part_000:230-314.                                 *)
(***************************************************************************)
\* part_000:231-247, and 320-340 with notFound set: decode, lookup and the
\* Find of the original; the handler goes on at next.
findOriginal(q, st, env, next, notFound) ==
    LET pre == lookupEvents(q) \o << CallFind(~lookupFails(q), 1, 1) >>
        l == findItem(st)
    IN  IF findFails(q, env) THEN Done(pre \o << SendError(StorageError) >>, st)
        ELSE IF Len(l) = 0
        THEN IF notFound THEN Done(pre \o << SendError(NotFoundError) >>, st)
             ELSE Outcome(pre, next, st, NilItem)
        ELSE Outcome(pre, next, st, l[1])

handleItemRequestPUT_Find(q, st, env) ==
    IF decodeFails(q) THEN Done(<< SendError(DecodeError) >>, st)
    ELSE findOriginal(q, st, env, "PUT", FALSE)

\* putMode that takes every PUT for a creation.
putMode_Create(original) == "Create"

\* part_000:249-253
putMode(original) == IF IsItem(original) THEN "Replace" ELSE "Create"

\* part_000:266-273: the Prepare of a PUT.
putPrepare(s, q, original) ==
    IF ~IsItem(original) THEN Prepare(s, q.payload, Absent, FALSE)
    ELSE Prepare(s, q.payload, Dict(original.Payload), TRUE)
putPrepared(original) ==
    IF ~IsItem(original) THEN DidPrepare(Absent, FALSE)
    ELSE DidPrepare(Dict(original.Payload), TRUE)
putStatus(original) == IF ~IsItem(original) THEN 201 ELSE 200

\* part_000:287-292
changesID(doc, original) ==
    IsItem(original) /\ "id" \in DOMAIN doc /\ doc["id"] # original.ID

\* part_000:294 and 361: the test that follows NewItem reads err, the error
\* of route.lookup(), and sends err2.
newItemCheckFails(q, n) == lookupFails(q)
newItemCheckSends(n) ==
    SendError(IF n.err THEN Error(500, "NewItem") ELSE NoError)

\* updateOriginal that hands over the item stored at the time of the write.
updateOriginal_Stored(st, original) == st.item

\* part_000:303 and 369: the original handed to handler.Update.
updateOriginal(st, original) == original

\* part_000:303-306, 369-373: Update and the answer.  A nil item (NewItem
\* failed) makes the backend fail or the call panic, as env says.
updateAndSend(q, st, n, original, status, env) ==
    IF n.err
    THEN IF env.nilItem = "panic"
         THEN Done(<< CallUpdate(NilItem, updateOriginal(st, original), Error(0, "panic")) >>, st)
         ELSE Done(<< CallUpdate(NilItem, updateOriginal(st, original), StorageError),
                      SendError(StorageError) >>, st)
    ELSE LET err == IF q.fault = "store" THEN StorageError
                    ELSE casError(st, updateOriginal(st, original))
         IN  IF err # NoError
             THEN Done(<< CallUpdate(n.item, updateOriginal(st, original), err),
                          SendError(err) >>, st)
             ELSE Done(<< CallUpdate(n.item, updateOriginal(st, original), NoError),
                          SendItem(status, n.item) >>,
                       [st EXCEPT !.item = n.item])

\* part_000:276-313, 349-373: from applyFields to the answer, for a PUT
\* (checkID set) and a PATCH.
validateAndStore(s, q, st, original, p, steps, status, checkID, env) ==
    LET v == Validate(s, p.changes, applyFields("item", p.base))
        n == NewItem(v.doc, env.now)
        done == steps \o << DidValidate(v.errs) >>
    IN  IF hasErrors(v.errs)
        THEN Done(done \o << SendError(ValidationError) >>, st)
        ELSE IF checkReferences(q) # NoError
        THEN Done(done \o << SendError(checkReferences(q)) >>, st)
        ELSE IF checkID /\ changesID(v.doc, original)
        THEN Done(done \o << SendError(Error(422, "Cannot change document ID")) >>, st)
        ELSE IF newItemCheckFails(q, n)
        THEN Done(done \o << newItemCheckSends(n) >>, st)
        ELSE IF IsItem(original)
        THEN After(done, updateAndSend(q, st, n, original, status, env))
        ELSE After(done, insertAndSend(q, st, n.item, status))

\* part_000:248-313
handleItemRequestPUT_Store(c, s, q, st, original, env) ==
    LET integrity == checkIntegrityRequest(q, original)
    IN  IF ~isModeAllowed(c, putMode(original))
        THEN Done(<< SendError(InvalidMethodError) >>, st)
        ELSE IF integrity # NoError
        THEN Done(<< DidIntegrity(integrity), SendError(integrity) >>, st)
        ELSE validateAndStore(s, q, st, original, putPrepare(s, q, original),
                              << DidIntegrity(NoError), putPrepared(original) >>,
                              putStatus(original), TRUE, env)

(***************************************************************************)
(* handleItemRequestPATCH, part_000:319-374.                               *)
(***************************************************************************)
handleItemRequestPATCH_Find(q, st, env) ==
    IF decodeFails(q) THEN Done(<< SendError(DecodeError) >>, st)
    ELSE findOriginal(q, st, env, "PATCH", TRUE)

\* part_000:341-373
handleItemRequestPATCH_Store(s, q, st, original, env) ==
    LET integrity == checkIntegrityRequest(q, original)
    IN  IF integrity # NoError
        THEN Done(<< DidIntegrity(integrity), SendError(integrity) >>, st)
        ELSE validateAndStore(s, q, st, original,
                              Prepare(s, q.payload, Dict(original.Payload), FALSE),
                              << DidIntegrity(NoError),
                                 DidPrepare(Dict(original.Payload), FALSE) >>,
                              200, FALSE, env)

(***************************************************************************)
(* handleItemRequestDELETE, part_000:377-402.                              *)
(***************************************************************************)
handleItemRequestDELETE_Find(q, st, env) ==
    findOriginal(q, st, env, "DELETE", TRUE)

\* part_000:392-401
handleItemRequestDELETE_Store(q, st, original) ==
    LET integrity == checkIntegrityRequest(q, original)
        err == IF q.fault = "store" THEN StorageError ELSE casError(st, original)
    IN  IF integrity # NoError
        THEN Done(<< DidIntegrity(integrity), SendError(integrity) >>, st)
        ELSE IF err # NoError
        THEN Done(<< DidIntegrity(NoError), CallDelete(original, err), SendError(err) >>, st)
        ELSE Done(<< DidIntegrity(NoError), CallDelete(original, NoError), Send(204) >>,
                  [st EXCEPT !.item = NilItem])

(***************************************************************************)
(* The resources and requests the checks range over.                       *)
(***************************************************************************)
\* The number of requests handled concurrently.
NumReq == 2
Reqs == 1 .. NumReq

\* The id field as resources usually declare it, and a plain one.
IDStrict == [PlainDef EXCEPT !.Required = TRUE, !.ReadOnly = TRUE, !.OnInit = "gen"]
IDLax == PlainDef
NameDef == [PlainDef EXCEPT !.Required = TRUE]
ResourceSchema(idDef) ==
    [Fields |-> [id |-> idDef, name |-> NameDef], MinLen |-> 0, MaxLen |-> 0]

Conf(modes, limit) == [AllowedModes |-> modes, PaginationDefaultLimit |-> limit]

\* Every combination of the permission flags on the usual resource, and
\* the fully permitted resource with a default page size or a plain id.
Resources ==
    {[conf |-> Conf(m, 0), schema |-> ResourceSchema(IDStrict)] : m \in SUBSET Modes}
    \cup {[conf |-> Conf(Modes, l), schema |-> ResourceSchema(d)] :
            l \in {0, 2}, d \in {IDStrict, IDLax}}

NoReq ==
    [target |-> "none", method |-> "none", payload |-> EmptyMap, fault |-> "none",
     ifMatch |-> NoHeader, ifUnmod |-> NoHeader, ifNoneMatch |-> NoHeader,
     ifModSince |-> NoHeader, page |-> NoParam, limit |-> NoParam]

Request(target, method) == [NoReq EXCEPT !.target = target, !.method = method]

ReqPayloads ==
    MapsOver([id |-> {Leaf("u"), Leaf("w")}, name |-> {Leaf("u"), Leaf("w")}])
FaultPayloads == {[name |-> Leaf("w")], [id |-> Leaf("u"), name |-> Leaf("w")]}
\* Payloads with a field z that the resource's schema does not declare.
UndeclaredPayloads ==
    {[name |-> Leaf("w"), z |-> Leaf("u")],
     [id |-> Leaf("u"), name |-> Leaf("w"), z |-> Leaf("u")]}

\* The entity tags a client can hold.
ETags == {genEtag([id |-> RouteID, name |-> n]) : n \in {Leaf("u"), Leaf("w")}}
TimeHeaders == {BadTime} \cup {HTime(t) : t \in Times}

\* The requests with a precondition: If-Match or If-Unmodified-Since.
Conditional(q) ==
    {q} \cup {[q EXCEPT !.ifMatch = e] : e \in ETags}
        \cup {[q EXCEPT !.ifUnmod = t] : t \in TimeHeaders}

Faulty(q, faults) == {[q EXCEPT !.fault = f] : f \in faults}

WriteRequests(method) ==
    UNION {Conditional([Request("item", method) EXCEPT !.payload = p]) :
             p \in ReqPayloads}
    \cup UNION {Faulty([Request("item", method) EXCEPT !.payload = p],
                       {"decode", "lookup", "find", "ref", "store"}) :
                  p \in FaultPayloads}
    \cup {[Request("item", method) EXCEPT !.payload = p] : p \in UndeclaredPayloads}

ReadRequests(method) ==
    {[Request("item", method) EXCEPT !.ifNoneMatch = e, !.ifModSince = t] :
        e \in {NoHeader} \cup ETags, t \in {NoHeader} \cup TimeHeaders}
    \cup Faulty(Request("item", method), {"lookup", "find"})

ListRequests(method) ==
    {[Request("list", method) EXCEPT !.page = p, !.limit = l] :
        p \in {NoParam, BadParam, Param(0), Param(1), Param(2)},
        l \in {NoParam, BadParam, Param(1)}}
    \cup Faulty(Request("list", method), {"lookup", "find"})

PostRequests ==
    {[Request("list", "POST") EXCEPT !.payload = p] : p \in ReqPayloads}
    \cup {[Request("list", "POST") EXCEPT !.payload = p, !.ifMatch = e] :
            p \in FaultPayloads, e \in ETags}
    \cup UNION {Faulty([Request("list", "POST") EXCEPT !.payload = p],
                       {"decode", "ref", "store"}) : p \in FaultPayloads}
    \cup {[Request("list", "POST") EXCEPT !.payload = p] : p \in UndeclaredPayloads}

Requests ==
    {Request(t, m) : t \in {"item", "list"}, m \in {"OPTIONS", "TRACE"}}
    \cup ReadRequests("GET") \cup ReadRequests("HEAD")
    \cup WriteRequests("PUT") \cup WriteRequests("PATCH")
    \cup Conditional(Request("item", "DELETE"))
    \cup Faulty(Request("item", "DELETE"), {"lookup", "find", "store"})
    \cup ListRequests("GET") \cup ListRequests("HEAD")
    \cup PostRequests
    \cup Faulty(Request("list", "DELETE"), {"none", "lookup", "store"})

\* The writes on one item that run concurrently: PUT and PATCH of each
\* name, a PUT with the id, a PATCH under If-Match, and DELETE.
ConcRequests ==
    {[Request("item", m) EXCEPT !.payload = [name |-> n]] :
        m \in {"PUT", "PATCH"}, n \in {Leaf("u"), Leaf("w")}}
    \cup {[Request("item", "PUT") EXCEPT !.payload = [id |-> RouteID, name |-> Leaf("w")]],
          [Request("item", "PATCH") EXCEPT
              !.payload = [name |-> Leaf("w")],
              !.ifMatch = genEtag([id |-> RouteID, name |-> Leaf("u")])],
          Request("item", "DELETE")}

\* What the environment decides during a step: the time (now), and what the
\* backend does with the nil lookup or the nil item it is handed.
Env(now, nilLookup, nilItem) ==
    [now |-> now, nilLookup |-> nilLookup, nilItem |-> nilItem]

\* The time does not run backwards.
Nows(st) == {t \in Times : IsItem(st.item) => t >= st.item.Updated}

\* For a step that ends with a Find or a Clear, one that creates an item,
\* and one that may hand a nil item to Update.
FindEnvs(q) ==
    {Env(1, a, "err") : a \in IF lookupFails(q) THEN {"ok", "err"} ELSE {"ok"}}
InsertEnvs(st) == {Env(t, "ok", "err") : t \in Nows(st)}
StoreEnvs(st) == {Env(t, "ok", b) : t \in Nows(st), b \in {"err", "panic"}}

(***************************************************************************)
(* State.  schema is the schema in use, fixed at start-up.  stored is the  *)
(* document the last successful Prepare/Validate round produced (Absent    *)
(* before the first), the original of the next update.  call records the   *)
(* last round: its inputs, what Prepare returned and what Validate did.    *)
(***************************************************************************)
VARIABLES schema, stored, call

(***************************************************************************)
(* State of the request handlers.  conf is the resource's configuration    *)
(* (allowed modes, default page size), fixed at start-up.  store is the    *)
(* storage backend: the item at the URL the item requests address (Absent  *)
(* when there is none) and the IDs of the collection's other items.  Each  *)
(* request r in flight has its request req[r], its position pc[r], the     *)
(* item its Find returned (fetched[r], the handler's original, kept until   *)
(* the handler returns) and log[r], the backend calls and responses it     *)
(* made so far, in order.  overwritten[r] is a history variable, no state   *)
(* of the program: another request wrote the item since r's Find.          *)
(***************************************************************************)
VARIABLES conf, store, pc, req, fetched, log, overwritten

schemaVars == << schema, stored, call >>
restVars == << conf, store, pc, req, fetched, log, overwritten >>
vars == << schema, stored, call, conf, store, pc, req, fetched, log, overwritten >>

NoResult == [isNil |-> TRUE, doc |-> EmptyMap, errs |-> EmptyMap]

NoCall ==
    [op |-> "none", payload |-> EmptyMap, original |-> Absent, replace |-> FALSE,
     panic |-> FALSE, changes |-> EmptyMap, base |-> EmptyMap, calls |-> EmptyMap,
     res |-> NoResult]

\* Prepare followed by Validate on what it returned, as every caller does.
Round(op, payload, original, replace) ==
    LET p == Prepare(schema, payload, original, replace)
    IN  [op |-> op, payload |-> payload, original |-> original, replace |-> replace,
         panic |-> p.panic, changes |-> p.changes, base |-> p.base, calls |-> p.calls,
         res |-> IF p.panic THEN NoResult ELSE Validate(schema, p.changes, p.base)]

\* The round produced a document without errors.
Accepted(c) == ~c.panic /\ ~c.res.isNil /\ DOMAIN c.res.errs = {}

\* The caller is between two rounds.
Idle == call.op = "none"

Call(c) ==
    /\ Idle
    /\ call' = c
    /\ UNCHANGED << schema, stored, restVars >>

\* The caller takes the round's result: an accepted document is stored and
\* is the original of the next update.
Return ==
    /\ ~Idle
    /\ stored' = IF Accepted(call) THEN Dict(call.res.doc) ELSE stored
    /\ call' = NoCall
    /\ UNCHANGED << schema, restVars >>

\* A new document: Prepare(payload, nil, false), then Validate.
PrepareCreate ==
    \E payload \in Payloads(schema) :
        Call(Round("create", payload, Absent, FALSE))

\* A partial update of the stored document: Prepare(payload, &original, false).
PrepareUpdate ==
    /\ IsSet(stored)
    /\ \E payload \in Payloads(schema) \cup {stored.map} :
          Call(Round("update", payload, stored, FALSE))

\* A replacement of the stored document: Prepare(payload, &original, true).
PrepareReplace ==
    /\ IsSet(stored)
    /\ \E payload \in Payloads(schema) \cup {stored.map} :
          Call(Round("replace", payload, stored, TRUE))

\* Prepare(payload, nil, true).
PrepareReplaceNoOriginal ==
    /\ ~IsSet(stored)
    /\ \E payload \in Payloads(schema) :
          Call(Round("misuse", payload, Absent, TRUE))

\* Validate called on a (changes, base) pair of the caller's own.
ValidateCall ==
    /\ ~IsSet(stored)
    /\ \E changes \in ChangeSets(schema), base \in BaseSets(schema) :
          Call([NoCall EXCEPT !.op = "validate", !.changes = changes,
                                   !.base = base,
                                   !.res = Validate(schema, changes, base)])

SchemaInit ==
    /\ schema \in Schemas
    /\ stored = Absent
    /\ call = NoCall
    /\ conf = Conf(Modes, 0)
    /\ store = EmptyStore
    /\ pc = [r \in Reqs |-> "idle"]
    /\ req = [r \in Reqs |-> NoReq]
    /\ fetched = [r \in Reqs |-> NilItem]
    /\ log = [r \in Reqs |-> << >>]
    /\ overwritten = [r \in Reqs |-> FALSE]

SchemaNext ==
    \/ PrepareCreate
    \/ PrepareUpdate
    \/ PrepareReplace
    \/ PrepareReplaceNoOriginal
    \/ ValidateCall
    \/ Return

SchemaSpec == SchemaInit /\ [][SchemaNext]_vars

(***************************************************************************)
(* The handlers as actions.  A request is handled in one step, or in two   *)
(* when it writes an item it first looks up: other requests take steps     *)
(* between the Find and the write.  Q is the set of requests received.     *)
(***************************************************************************)
\* The events hold a backend write that succeeded.
Wrote(events) ==
    \E i \in 1 .. Len(events) : IsMutation(events[i]) /\ events[i].err = NoError.name

\* The request is between its Find and its write.
Pending(r) == pc[r] \in {"PUT", "PATCH", "DELETE"}

Apply(r, q, out) ==
    /\ req' = [req EXCEPT ![r] = q]
    /\ log' = [log EXCEPT ![r] = @ \o out.events]
    /\ pc' = [pc EXCEPT ![r] = out.next]
    /\ fetched' = [fetched EXCEPT ![r] = IF pc[r] = "idle" THEN out.fetched ELSE @]
    /\ store' = out.store
    /\ overwritten' = [x \in Reqs |->
                         IF x = r THEN overwritten[x]
                         ELSE overwritten[x] \/ (Pending(x) /\ Wrote(out.events))]
    /\ UNCHANGED << conf, schemaVars >>

Handles(r, q, target, methods) ==
    /\ pc[r] = "idle"
    /\ q.target = target
    /\ q.method \in methods
    /\ routeGate(conf, q) = "handle"

\* The requests of Q on a target with one of the methods.
On(Q, target, methods) == {q \in Q : q.target = target /\ q.method \in methods}

OPTIONS(r, Q) ==
    /\ pc[r] = "idle"
    /\ \E q \in Q :
        /\ routeGate(conf, q) = "allow"
        /\ Apply(r, q, handleOPTIONS(conf, q, store))

Reject(r, Q) ==
    /\ pc[r] = "idle"
    /\ \E q \in Q :
        /\ routeGate(conf, q) = "reject"
        /\ Apply(r, q, rejectMethod(store))

ItemGET(r, Q) ==
    /\ pc[r] = "idle"
    /\ \E q \in Q :
          /\ Handles(r, q, "item", {"HEAD", "GET"})
          /\ \E env \in FindEnvs(q) :
                Apply(r, q, handleItemRequestGET(q, store, env))

ListGET(r, Q) ==
    /\ pc[r] = "idle"
    /\ \E q \in Q :
          /\ Handles(r, q, "list", {"HEAD", "GET"})
          /\ \E env \in FindEnvs(q) :
                Apply(r, q, handleListRequestGET(conf, q, store, env))

ListPOST(r, Q) ==
    /\ pc[r] = "idle"
    /\ \E q \in Q :
          /\ Handles(r, q, "list", {"POST"})
          /\ \E env \in InsertEnvs(store) :
                Apply(r, q, handleListRequestPOST(schema, q, store, env))

ListDELETE(r, Q) ==
    /\ pc[r] = "idle"
    /\ \E q \in Q :
          /\ Handles(r, q, "list", {"DELETE"})
          /\ \E env \in FindEnvs(q) :
                Apply(r, q, handleListRequestDELETE(q, store, env))

ItemPUT_Find(r, Q) ==
    /\ pc[r] = "idle"
    /\ \E q \in Q :
          /\ Handles(r, q, "item", {"PUT"})
          /\ \E env \in FindEnvs(q) :
                Apply(r, q, handleItemRequestPUT_Find(q, store, env))

ItemPUT_Store(r) ==
    /\ pc[r] = "PUT"
    /\ \E env \in StoreEnvs(store) :
        /\ Apply(r, req[r],
                 handleItemRequestPUT_Store(conf, schema, req[r], store, fetched[r], env))

ItemPATCH_Find(r, Q) ==
    /\ pc[r] = "idle"
    /\ \E q \in Q :
          /\ Handles(r, q, "item", {"PATCH"})
          /\ \E env \in FindEnvs(q) :
                Apply(r, q, handleItemRequestPATCH_Find(q, store, env))

ItemPATCH_Store(r) ==
    /\ pc[r] = "PATCH"
    /\ \E env \in StoreEnvs(store) :
        /\ Apply(r, req[r],
                 handleItemRequestPATCH_Store(schema, req[r], store, fetched[r], env))

ItemDELETE_Find(r, Q) ==
    /\ pc[r] = "idle"
    /\ \E q \in Q :
          /\ Handles(r, q, "item", {"DELETE"})
          /\ \E env \in FindEnvs(q) :
                Apply(r, q, handleItemRequestDELETE_Find(q, store, env))

ItemDELETE_Store(r) ==
    /\ pc[r] = "DELETE"
    /\ Apply(r, req[r], handleItemRequestDELETE_Store(req[r], store, fetched[r]))

\* The request is over: its handler has returned.
Finish(r) ==
    /\ pc[r] = "done"
    /\ pc' = [pc EXCEPT ![r] = "idle"]
    /\ req' = [req EXCEPT ![r] = NoReq]
    /\ log' = [log EXCEPT ![r] = << >>]
    /\ fetched' = [fetched EXCEPT ![r] = NilItem]
    /\ overwritten' = [overwritten EXCEPT ![r] = FALSE]
    /\ UNCHANGED << conf, store, schemaVars >>

RestInit(resources) ==
    /\ \E res \in resources : conf = res.conf /\ schema = res.schema
    /\ stored = Absent
    /\ call = NoCall
    /\ store = EmptyStore
    /\ pc = [r \in Reqs |-> "idle"]
    /\ req = [r \in Reqs |-> NoReq]
    /\ fetched = [r \in Reqs |-> NilItem]
    /\ log = [r \in Reqs |-> << >>]
    /\ overwritten = [r \in Reqs |-> FALSE]

\* The requests by handler.
ItemGETs == On(Requests, "item", {"HEAD", "GET"})
ListGETs == On(Requests, "list", {"HEAD", "GET"})
ListPOSTs == On(Requests, "list", {"POST"})
ListDELETEs == On(Requests, "list", {"DELETE"})
ItemPUTs == On(Requests, "item", {"PUT"})
ItemPATCHs == On(Requests, "item", {"PATCH"})
ItemDELETEs == On(Requests, "item", {"DELETE"})

\* The requests of every kind, handled one after the other.
Init == RestInit(Resources)

Next ==
    \/ OPTIONS(1, Requests)
    \/ Reject(1, Requests)
    \/ ItemGET(1, ItemGETs)
    \/ ListGET(1, ListGETs)
    \/ ListPOST(1, ListPOSTs)
    \/ ListDELETE(1, ListDELETEs)
    \/ ItemPUT_Find(1, ItemPUTs)
    \/ ItemPUT_Store(1)
    \/ ItemPATCH_Find(1, ItemPATCHs)
    \/ ItemPATCH_Store(1)
    \/ ItemDELETE_Find(1, ItemDELETEs)
    \/ ItemDELETE_Store(1)
    \/ Finish(1)

Spec == Init /\ [][Next]_vars

\* Writes on one item of a fully permitted resource, handled concurrently.
ConcInit ==
    RestInit({[conf |-> Conf(Modes, 0), schema |-> ResourceSchema(IDStrict)]})

ConcNext ==
    \E r \in Reqs :
        \/ ItemPUT_Find(r, ConcRequests)
        \/ ItemPUT_Store(r)
        \/ ItemPATCH_Find(r, ConcRequests)
        \/ ItemPATCH_Store(r)
        \/ ItemDELETE_Find(r, ConcRequests)
        \/ ItemDELETE_Store(r)
        \/ Finish(r)

ConcSpec == ConcInit /\ [][ConcNext]_vars

(***************************************************************************)
(* Properties of Prepare and Validate, stated on the last round (call) of  *)
(* SchemaSpec.                                                             *)
(***************************************************************************)
\* The errors the last round reported for a key.
ErrsOf(errs, k) == IF k \in DOMAIN errs THEN errs[k] ELSE << >>
HasErr(errs, k, e) == \E i \in 1 .. Len(ErrsOf(errs, k)) : ErrsOf(errs, k)[i] = e

\* The last round was an update or a replace of the stored document.
Updating == call.op \in {"update", "replace"}

\* The payload of the last round was the original itself.
Resubmitted == Updating /\ call.payload = call.original.map

NoHooks(s) ==
    \A f \in DOMAIN s.Fields :
        s.Fields[f].OnInit = NoHook /\ s.Fields[f].OnUpdate = NoHook

\* The change-set names no change: it is empty, but for the empty
\* change-sets of sub-documents.
NoChange(changes) ==
    \A f \in DOMAIN changes : IsDict(changes[f]) /\ DOMAIN changes[f].map = {}

\* C1, for the schemas whose fields have no hook: Prepare with a payload
\* equal to the original (replace or not) returns an empty change-set (a
\* sub-document's empty change-set counts as none), and Validate on what it
\* returned gives a document equal to the original.
C1_Idempotent ==
    (Resubmitted /\ NoHooks(schema)) =>
        /\ NoChange(call.changes)
        /\ ~call.res.isNil
        /\ call.res.doc = call.original.map

\* C2: whatever (changes, base) Validate is given, it returns a document whose
\* field count n has n >= MinLen and (MaxLen = 0 or n <= MaxLen), or a nil
\* document with an error under the root key; never a document out of bounds.
C2_SizeBounds ==
    (call.op # "none" /\ ~call.panic) =>
        LET n == Cardinality(DOMAIN call.res.doc) IN
        IF call.res.isNil THEN RootKey \in DOMAIN call.res.errs
        ELSE n >= schema.MinLen /\ (schema.MaxLen = 0 \/ n <= schema.MaxLen)

\* Validate was handed a change-set of the caller's own that merges into more
\* fields than MaxLen allows, and returned nil with a root error.
C2_Witness ==
    /\ call.op = "validate"
    /\ schema.MaxLen > 0
    /\ Cardinality(DOMAIN mergeDoc(call.changes, call.base)) > schema.MaxLen
    /\ call.res.isNil
    /\ RootKey \in DOMAIN call.res.errs

\* The ReadOnly leaf fields of the schema that the original holds and the
\* payload of the update names.
ReadOnlySubmitted ==
    {f \in DOMAIN schema.Fields :
        /\ Updating
        /\ schema.Fields[f].ReadOnly /\ ~HasSchema(schema.Fields[f])
        /\ f \in DOMAIN call.original.map
        /\ f \in DOMAIN call.payload}

\* The submitted value as the field's validator normalises it.
Normalised(def, value) ==
    IF def.Validator # NoValidator /\ FieldValidate(def.Validator, value).ok
    THEN FieldValidate(def.Validator, value).v ELSE value

\* The update submits a value for f that is not the original's.
Differs(f) ==
    Normalised(schema.Fields[f], call.payload[f]) # call.original.map[f]

ReadOnlyError(f) == HasErr(call.res.errs, f, Msg("read-only"))

\* C3 as claimed: every update whose payload names a ReadOnly field of the
\* original reports "read-only" for it, and the document Validate returns
\* holds the field's original value.
C3_AlwaysReadOnlyError ==
    \A f \in ReadOnlySubmitted :
        /\ ReadOnlyError(f)
        /\ ~call.res.isNil => Get(call.res.doc, f) = call.original.map[f]

\* C3, amended: an update whose payload names a ReadOnly field of the
\* original reports "read-only" for it exactly when the submitted value,
\* once normalised, differs from the original's; the document Validate then
\* returns holds the change-set's value for the field, not the original's
\* (the submitted value, unless an OnUpdate hook replaced it); a resubmitted
\* identical value is no error and, without an OnUpdate hook, leaves the
\* original value in the document.
C3_ReadOnlyErrorIffChanged ==
    \A f \in ReadOnlySubmitted :
        /\ ReadOnlyError(f) <=> Differs(f)
        /\ (ReadOnlyError(f) /\ ~call.res.isNil) =>
              /\ Get(call.res.doc, f) = call.changes[f]
              /\ schema.Fields[f].OnUpdate = NoHook =>
                    /\ call.res.doc[f] = Normalised(schema.Fields[f], call.payload[f])
                    /\ call.res.doc[f] # call.original.map[f]
        /\ (~ReadOnlyError(f) /\ ~call.res.isNil
              /\ schema.Fields[f].OnUpdate = NoHook) =>
              Get(call.res.doc, f) = call.original.map[f]

\* An update submitted a new value for a ReadOnly field: the error is
\* reported and the document holds the submitted value.
C3_Witness ==
    \E f \in ReadOnlySubmitted :
        /\ Differs(f)
        /\ ReadOnlyError(f)
        /\ ~call.res.isNil
        /\ call.res.doc[f] = call.payload[f]
        /\ call.res.doc[f] # call.original.map[f]

\* The field definition is Required with a non-nil Default.
RequiredDefault(def) == def.Required /\ def.Default # Nil

Unbounded(s) == s.MinLen = 0 /\ s.MaxLen = 0

\* The document holds a non-null value for f and errs no "required" for it.
Kept(res, f) ==
    /\ f \in DOMAIN res.doc
    /\ res.doc[f] # Nil
    /\ ~HasErr(res.errs, f, Msg("required"))

\* The last round omitted the field f of schema s, given the payload and the
\* original at the level of s: a creation, or a replace whose original
\* holds f.
Omitted(s, f, payload, original) ==
    /\ RequiredDefault(s.Fields[f])
    /\ f \notin DOMAIN payload
    /\ \/ call.op = "create"
       \/ call.op = "replace" /\ f \in DOMAIN original

\* The sub-document a map holds under s (the empty map if it holds none).
SubOf(m) == subMapOf(m, "s")

\* What Validate returned for the sub-document under s.
SubResult ==
    [doc |-> SubOf(call.res.doc),
     errs |-> IF \E i \in 1 .. Len(ErrsOf(call.res.errs, "s")) :
                    "sub" \in DOMAIN ErrsOf(call.res.errs, "s")[i]
              THEN (CHOOSE e \in {ErrsOf(call.res.errs, "s")[i] :
                                    i \in 1 .. Len(ErrsOf(call.res.errs, "s"))} :
                        "sub" \in DOMAIN e).sub
              ELSE EmptyMap]

\* C4, for the schemas without size bounds: a Required field with a non-nil
\* Default, of the schema or of a sub-schema, that the payload omits on
\* creation, or omits in replace mode while the original holds it, is in the
\* document Validate returns with a non-null value, and has no "required"
\* error.
C4_DefaultKept ==
    /\ Unbounded(schema) =>
          \A f \in DOMAIN schema.Fields :
              Omitted(schema, f, call.payload, call.original.map) =>
                  ~call.res.isNil /\ Kept(call.res, f)
    /\ (IsNested(schema) /\ Unbounded(schema.Fields["s"].Schema)
          /\ call.op \in {"create", "replace"}
          /\ "s" \in DOMAIN call.payload /\ IsDict(call.payload["s"])) =>
          \A f \in DOMAIN schema.Fields["s"].Schema.Fields :
              Omitted(schema.Fields["s"].Schema, f, SubOf(call.payload),
                      IF call.op = "replace" THEN SubOf(call.original.map)
                      ELSE EmptyMap) =>
                  ~call.res.isNil /\ Kept(SubResult, f)

(***************************************************************************)
(* Properties of the request handlers, stated on the request log (Spec     *)
(* and ConcSpec).                                                          *)
(***************************************************************************)
\* The events of r's log that are backend writes on items.
ItemWrites(r) ==
    {i \in 1 .. Len(log[r]) : log[r][i].ev \in {"Insert", "Update", "Delete"}}

\* Every backend call that writes.
Mutations(r) == {i \in 1 .. Len(log[r]) : IsMutation(log[r][i])}

\* The event e is in r's log before position i, and anywhere in it.
Before(r, i, e) == \E j \in 1 .. i - 1 : log[r][j] = e
Logged(r, e) == \E j \in 1 .. Len(log[r]) : log[r][j] = e

\* The handler of r has returned.
Over(r) == pc[r] = "done"

\* The precondition check of r has refused the request.
IntegrityFailed(r) ==
    \E j \in 1 .. Len(log[r]) :
        log[r][j].ev = "checkIntegrityRequest" /\ log[r][j].err # NoError.name

\* C5 as claimed: in a POST, PUT, PATCH or item DELETE, Insert, Update or
\* Delete is called only after the precondition check on the conditional
\* headers has passed and, for POST, PUT and PATCH, after Validate has
\* returned no errors; a request refused by the precondition check or
\* answered with the 422 validation error makes no such call.
C5_ChecksPrecedeEveryWrite ==
    \A r \in Reqs :
        /\ \A i \in ItemWrites(r) :
              /\ Before(r, i, DidIntegrity(NoError))
              /\ req[r].method \in {"POST", "PUT", "PATCH"} =>
                    Before(r, i, DidValidate(EmptyMap))
        /\ (IntegrityFailed(r) \/ Logged(r, SendError(ValidationError))) =>
              Mutations(r) = {}

\* C5, amended: a POST checks no precondition (it reads no conditional
\* header) and calls Insert only after Validate has returned no errors; in a
\* PUT, PATCH or item DELETE, Insert, Update or Delete is called only after
\* the precondition check has passed and, for PUT and PATCH, after Validate
\* has returned no errors; a request refused by the precondition check or
\* answered with the 422 validation error makes no mutating call.
C5_ChecksPrecedeWrite ==
    \A r \in Reqs :
        /\ \A i \in ItemWrites(r) :
              /\ req[r].method \in {"PUT", "PATCH", "DELETE"} =>
                    Before(r, i, DidIntegrity(NoError))
              /\ req[r].method = "POST" =>
                    \A j \in 1 .. i : log[r][j].ev # "checkIntegrityRequest"
              /\ req[r].method \in {"POST", "PUT", "PATCH"} =>
                    Before(r, i, DidValidate(EmptyMap))
        /\ (IntegrityFailed(r) \/ Logged(r, SendError(ValidationError))) =>
              Mutations(r) = {}

\* A PATCH under If-Match passed the precondition check and Validate, then
\* called Update.
C5_Witness ==
    \E r \in Reqs :
        /\ Over(r)
        /\ req[r].method = "PATCH"
        /\ req[r].ifMatch # NoHeader
        /\ \E i \in ItemWrites(r) :
              /\ log[r][i].ev = "Update"
              /\ Before(r, i, DidIntegrity(NoError))
              /\ Before(r, i, DidValidate(EmptyMap))

\* The requests of ConcSpec: the item writes Update and Delete of the step
\* that r takes from its Find to its end.
NewEvents(r) == SubSeq(log'[r], Len(log[r]) + 1, Len(log'[r]))
Completes(r) == pc[r] # "done" /\ pc'[r] = "done"

WriteStep(r) ==
    (Pending(r) /\ Completes(r)) =>
        \A i \in 1 .. Len(NewEvents(r)) :
            LET e == NewEvents(r)[i] IN
            e.ev \in {"Update", "Delete"} =>
                /\ e.original = fetched[r]
                /\ e.err = NoError.name <=>
                      (IsItem(store.item) /\ store.item.ETag = fetched[r].ETag)
                /\ e.err # NoError.name =>
                      /\ e.err = PreconditionFailedError.name
                      /\ store' = store
                      /\ NewEvents(r)[Len(NewEvents(r))]
                            = SendError(PreconditionFailedError)

\* C6, amended: with concurrent PUT-replace, PATCH and item DELETE requests
\* on one item, against a backend whose Update and Delete compare-and-swap
\* on the original's ETag, the original passed to Update or Delete is the
\* item the request's own Find returned; the write succeeds exactly when
\* the stored item still carries that item's ETag, and otherwise the request
\* gets a precondition failure and leaves the store unchanged.  The ETag
\* being derived from the content, a write that follows an overwrite with
\* the same content succeeds.
C6_CompareAndSwap == [][\A r \in Reqs : WriteStep(r)]_vars

\* The successful Update and Delete calls of r.
Succeeded(r) ==
    {i \in 1 .. Len(log[r]) :
        log[r][i].ev \in {"Update", "Delete"} /\ log[r][i].err = NoError.name}

\* C6 as claimed: a request whose fetched version was overwritten or deleted
\* by another request before its own write does not succeed.
C6_StaleWriteFails ==
    \A r \in Reqs : (Over(r) /\ overwritten[r]) => Succeeded(r) = {}

\* A request whose fetched item another request replaced with other content
\* handed the item of its own Find to Update and got a precondition failure.
C6_Witness ==
    \E r \in Reqs :
        /\ Over(r)
        /\ overwritten[r]
        /\ IsItem(fetched[r])
        /\ IsItem(store.item) /\ store.item.ETag # fetched[r].ETag
        /\ \E i \in 1 .. Len(log[r]) :
              /\ log[r][i].ev = "Update"
              /\ log[r][i].original = fetched[r]
              /\ log[r][i].err = PreconditionFailedError.name
        /\ log[r][Len(log[r])] = SendError(PreconditionFailedError)

\* The permission flag the request needs, for a PUT given whether an item
\* exists at the lookup.
RequiredMode(q, exists) ==
    IF q.target = "item"
    THEN CASE q.method \in {"HEAD", "GET"} -> "Read"
           [] q.method = "PUT" -> IF exists THEN "Replace" ELSE "Create"
           [] q.method = "PATCH" -> "Update"
           [] q.method = "DELETE" -> "Delete"
           [] OTHER -> "none"
    ELSE CASE q.method \in {"HEAD", "GET"} -> "List"
           [] q.method = "POST" -> "Create"
           [] q.method = "DELETE" -> "Clear"
           [] OTHER -> "none"

\* The step ends a request that lacks the flag it needs.
Denied(r) ==
    /\ Completes(r)
    /\ RequiredMode(req'[r], IsItem(store.item)) \in Modes \ conf.AllowedModes

NoMutation(l) == \A i \in 1 .. Len(l) : ~IsMutation(l[i])
Sent(l, e) == \E i \in 1 .. Len(l) : l[i] = e

\* C7 as claimed: a request whose target and method need a permission flag
\* that is not set is answered with the method-not-allowed error and calls
\* no Insert, Update, Delete or Clear.
C7_DeniedGets405 ==
    [][\A r \in Reqs :
          Denied(r) => /\ Sent(log'[r], SendError(InvalidMethodError))
                       /\ NoMutation(log'[r])]_vars

\* C7, amended: a request whose target and method need a permission flag
\* that is not set calls no Insert, Update, Delete or Clear, and is answered
\* with the method-not-allowed error, except a PUT while Create or Replace is
\* set, whose mode is known only after the body is decoded and the item
\* looked up: it is answered with the decoding error or the storage error
\* of Find when one of these fails.
C7_DeniedNeverWrites ==
    [][\A r \in Reqs :
          Denied(r) =>
              /\ NoMutation(log'[r])
              /\ \/ Sent(log'[r], SendError(InvalidMethodError))
                 \/ /\ req'[r].method = "PUT" /\ req'[r].target = "item"
                    /\ routeGate(conf, req'[r]) = "handle"
                    /\ log'[r][Len(log'[r])]
                          \in {SendError(DecodeError), SendError(StorageError)}]_vars

\* A PUT on an existing item of a resource that allows Create and not
\* Replace was answered with the method-not-allowed error after its Find,
\* without a write.
C7_Witness ==
    \E r \in Reqs :
        /\ Over(r)
        /\ req[r].method = "PUT"
        /\ IsItem(fetched[r])
        /\ "Create" \in conf.AllowedModes
        /\ "Replace" \notin conf.AllowedModes
        /\ Sent(log[r], SendError(InvalidMethodError))
        /\ Sent(log[r], CallFind(TRUE, 1, 1))
        /\ NoMutation(log[r])

GatedMethods == {"HEAD", "GET", "PUT", "PATCH", "DELETE", "POST"}
Listed(l, m) ==
    \E i \in 1 .. Len(l) :
        l[i].ev = "allow" /\ \E k \in 1 .. Len(l[i].methods) : l[i].methods[k] = m

\* C8: the Allow header sent for OPTIONS lists a method if and only if the
\* permission gate does not reject a request with that method on the same
\* target.
C8_AllowMatchesGate ==
    \A r \in Reqs :
        (Over(r) /\ req[r].method = "OPTIONS") =>
            \A m \in GatedMethods :
                Listed(log[r], m)
                    <=> routeGate(conf, Request(req[r].target, m)) # "reject"

\* The request is a permitted collection GET with a page other than 1 and no
\* limit, on a resource without a default page size.
PageWithoutLimit(r) ==
    /\ req[r].target = "list" /\ req[r].method = "GET"
    /\ isModeAllowed(conf, "List")
    /\ req[r].fault = "none"
    /\ conf.PaginationDefaultLimit = 0
    /\ req[r].limit = NoParam
    /\ "n" \in DOMAIN req[r].page /\ req[r].page.n # 1

\* C9: a collection GET with a page other than 1 and no limit, on a resource
\* without a default page size, is answered with a 422 error and nothing
\* else: Find is not called, no list is sent.
C9_PageWithoutLimitRejected ==
    \A r \in Reqs :
        (Over(r) /\ PageWithoutLimit(r)) =>
            /\ Len(log[r]) = 1
            /\ log[r][1].ev = "sendError" /\ log[r][1].status = 422

\* The number of calls of a kind in r's log.
Calls(r, ev) == Cardinality({i \in 1 .. Len(log[r]) : log[r][i].ev = ev})

\* The PUT of r has passed the permission, precondition, validation,
\* reference and identity checks, its lookup being well-formed.
PutPassed(r) ==
    /\ Over(r)
    /\ req[r].target = "item" /\ req[r].method = "PUT"
    /\ req[r].fault = "none"
    /\ Logged(r, DidIntegrity(NoError))
    /\ Logged(r, DidValidate(EmptyMap))
    /\ ~Logged(r, SendError(Error(422, "Cannot change document ID")))

\* The last event answers with the item and the status, or with the error
\* of the backend call at position i.
Answered(r, i, status) ==
    LET last == log[r][Len(log[r])] IN
    IF log[r][i].err = NoError.name
    THEN last.ev = "sendItem" /\ last.status = status /\ last.item = log[r][i].item
    ELSE last.ev = "sendError" /\ last.err = log[r][i].err

\* C10, the backend's own failures aside: a PUT that passes the permission,
\* precondition, validation and reference checks, when its Find returned
\* no item, prepares the document with no original, calls Insert once and
\* Update never, and answers 201; when Find returned an item, it prepares
\* the document against that item's payload with replace=true, calls
\* Update(new item, fetched item) once and Insert never, and answers 200.
C10_PutCreatesOrReplaces ==
    \A r \in Reqs :
        PutPassed(r) =>
            IF ~IsItem(fetched[r])
            THEN /\ Logged(r, DidPrepare(Absent, FALSE))
                 /\ Calls(r, "Insert") = 1 /\ Calls(r, "Update") = 0
                 /\ \A i \in ItemWrites(r) :
                       IsItem(log[r][i].item) /\ Answered(r, i, 201)
            ELSE /\ Logged(r, DidPrepare(Dict(fetched[r].Payload), TRUE))
                 /\ Calls(r, "Update") = 1 /\ Calls(r, "Insert") = 0
                 /\ \A i \in ItemWrites(r) :
                       /\ IsItem(log[r][i].item)
                       /\ log[r][i].original = fetched[r]
                       /\ Answered(r, i, 200)

\* The last round called Prepare: a creation, an update, a replace, or
\* replace=true without an original.
Prepared == call.op \in {"create", "update", "replace", "misuse"}

\* C11: for every schema, the schema without fields included, and every
\* payload, Prepare panics when it is called with replace=true and no
\* original, and for no other combination of its arguments.
C11_PanicsExactlyOnMisuse ==
    Prepared => (call.panic <=> (call.replace /\ ~IsSet(call.original)))

\* The step handles an item GET or HEAD that the permission gate lets through.
GetStep(r) ==
    /\ pc[r] = "idle" /\ pc'[r] = "done"
    /\ req'[r].target = "item" /\ req'[r].method \in {"GET", "HEAD"}
    /\ routeGate(conf, req'[r]) = "handle"

\* The client holds the item's entity tag, or a modification time at or
\* after the item's Updated.
NotModified(q, item) ==
    \/ q.ifNoneMatch = item.ETag
    \/ "t" \in DOMAIN q.ifModSince /\ q.ifModSince.t >= item.Updated

LastSent(l) == l[Len(l)]

\* C12 as claimed, for the requests whose lookup and Find succeed: an item
\* GET or HEAD on an existing item is answered 304 without a body if and only
\* if If-None-Match equals the item's ETag or If-Modified-Since is at or
\* after the item's Updated, and 200 with the item in every other case; when
\* no item exists it is answered NotFound.
C12_NotModifiedOrItem ==
    [][\A r \in Reqs :
          (GetStep(r) /\ req'[r].fault = "none") =>
              LastSent(log'[r]) =
                  IF ~IsItem(store.item) THEN SendError(NotFoundError)
                  ELSE IF NotModified(req'[r], store.item) THEN Send(304)
                  ELSE SendItem(200, store.item)]_vars

\* C12, amended: what an item GET or HEAD sends after its Find.  When Find
\* fails, its error; when it returns no item, NotFound; when it returns the
\* item: 304 without a body if If-None-Match equals the item's ETag; else 400
\* if If-Modified-Since does not parse; else 304 if If-Modified-Since is at
\* or after the item's Updated; else, and when no conditional header is sent,
\* 200 with the item.
C12_ConditionalGet ==
    [][\A r \in Reqs :
          GetStep(r) =>
              LET q == req'[r]
                  l == log'[r]
                  i == CHOOSE j \in 1 .. Len(l) : l[j].ev = "Find"
              IN  /\ \E j \in 1 .. Len(l) : l[j].ev = "Find"
                  /\ Len(l) = i + 1
                  /\ \/ q.fault \in {"lookup", "find"}
                        /\ l[i + 1] = SendError(StorageError)
                     \/ q.fault # "find" /\ l[i + 1] =
                          IF ~IsItem(store.item) THEN SendError(NotFoundError)
                          ELSE IF q.ifNoneMatch = store.item.ETag THEN Send(304)
                          ELSE IF q.ifModSince = BadTime
                          THEN SendError(Error(400, "Invalid If-Modified-Since header"))
                          ELSE IF NotModified(q, store.item) THEN Send(304)
                          ELSE SendItem(200, store.item)]_vars

\* A GET that sent If-Modified-Since alone, with a time at or after the
\* item's Updated, was answered 304.
C12_Witness ==
    \E r \in Reqs :
        /\ Over(r)
        /\ req[r].target = "item" /\ req[r].method = "GET"
        /\ req[r].ifNoneMatch = NoHeader
        /\ "t" \in DOMAIN req[r].ifModSince
        /\ Logged(r, CallFind(TRUE, 1, 1))
        /\ LastSent(log[r]) = Send(304)

\* The last round was a partial update (replace=false) whose original and
\* payload both hold a sub-document under s, the payload's naming some
\* sub-fields and omitting one the original holds.
PartialSubUpdate ==
    /\ call.op = "update"
    /\ IsNested(schema)
    /\ "s" \in DOMAIN call.original.map /\ IsDict(call.original.map["s"])
    /\ "s" \in DOMAIN call.payload /\ IsDict(call.payload["s"])
    /\ DOMAIN SubOf(call.payload) # {}
    /\ DOMAIN SubOf(call.original.map) \ DOMAIN SubOf(call.payload) # {}

\* C13: a partial update (replace=false) whose payload holds, for a field
\* with a sub-schema, a sub-document naming some of the sub-fields the
\* original holds, produces a document that keeps under that field every
\* sub-field of the original the payload omits, with its original value, and
\* holds the submitted value for the others.
C13_OmittedSubFieldsKept ==
    (PartialSubUpdate /\ Accepted(call)) =>
        /\ "s" \in DOMAIN call.res.doc /\ IsDict(call.res.doc["s"])
        /\ \A f \in DOMAIN SubOf(call.original.map) :
              /\ f \in DOMAIN SubOf(call.res.doc)
              /\ SubOf(call.res.doc)[f] =
                    IF f \in DOMAIN SubOf(call.payload) THEN SubOf(call.payload)[f]
                    ELSE SubOf(call.original.map)[f]

\* The Update calls of r.
Updates(r) == {i \in 1 .. Len(log[r]) : log[r][i].ev = "Update"}

\* C14: every Update call hands the backend a new item whose ID is the ID of
\* the original handed with it, in a PUT and in a PATCH; a payload that
\* changes the id of the existing item gets no Update call.
C14_UpdateKeepsID ==
    \A r \in Reqs :
        \A i \in Updates(r) :
            IsItem(log[r][i].item) => log[r][i].item.ID = log[r][i].original.ID

\* The responses of r.
Responses(r) == {i \in 1 .. Len(log[r]) : IsResponse(log[r][i])}

\* C15: every request handleRoute handles, OPTIONS aside, sends exactly one
\* response on every path; an error response is the last thing its handler
\* does: no backend call and no response follows it.
C15_ExactlyOneResponse ==
    \A r \in Reqs :
        (Over(r) /\ req[r].method # "OPTIONS") =>
            /\ Cardinality(Responses(r)) = 1
            /\ \A i \in 1 .. Len(log[r]) - 1 : log[r][i].ev # "sendError"

\* C16: in an item PUT or PATCH, when NewItem fails (it returns a nil item
\* and an error), the request is answered with that error and neither
\* Insert nor Update is called: no Insert or Update is handed a nil item.
C16_NoWriteWithoutItem ==
    \A r \in Reqs :
        (req[r].target = "item" /\ req[r].method \in {"PUT", "PATCH"}) =>
            \A i \in ItemWrites(r) : IsItem(log[r][i].item)

\* The leaf fields without a hook that the last round, a replace, found in
\* the original and not in the payload.
ReplaceOmitted ==
    {f \in DOMAIN schema.Fields :
        /\ call.op = "replace"
        /\ ~HasSchema(schema.Fields[f])
        /\ schema.Fields[f].OnInit = NoHook /\ schema.Fields[f].OnUpdate = NoHook
        /\ f \in DOMAIN call.original.map
        /\ f \notin DOMAIN call.payload}

\* What replace mode puts in changes for an omitted field.
Reapplied(def, oValue) ==
    CASE def.Hidden /\ ~def.ReadOnly -> oValue
      [] ~(def.Hidden /\ ~def.ReadOnly) /\ def.Required /\ def.Default # Nil -> def.Default
      [] OTHER -> Tombstone

C18_ReplaceCallsOnInit ==
    (Prepared /\ ~call.panic) =>
        \A f \in DOMAIN schema.Fields :
            LET def == schema.Fields[f]
                init == ~IsSet(call.original) \/ call.replace
                hook == IF init THEN def.OnInit ELSE def.OnUpdate
                name == IF init THEN "OnInit" ELSE "OnUpdate"
            IN  /\ hook = NoHook => call.calls[f] = << >>
                /\ hook # NoHook =>
                      /\ call.calls[f] # << >>
                      /\ \A i \in 1 .. Len(call.calls[f]) : call.calls[f][i].hook = name

\* The declared fields that have the hook applicable to the last round:
\* OnInit without an original, OnUpdate with one.
HookFields ==
    {f \in DOMAIN schema.Fields : hookOf(schema.Fields[f], call.original) # NoHook}

\* The change and base slots of f as they stand when the hook is reached.
BeforeHook(f) ==
    prepareSub(schema.Fields[f], f, call.payload, call.original, call.replace,
               prepareValue(schema.Fields[f], f, call.payload, call.original,
                            call.replace))

Undeclared(q) == DOMAIN q.payload \ DOMAIN schema.Fields

\* The Prepare steps of r's log.
Prepares(r) == {i \in 1 .. Len(log[r]) : log[r][i].ev = "Prepare"}

\* C20: when the payload of a POST, PUT or PATCH holds a field the schema
\* does not declare, the Prepare the handler calls (without an original,
\* with one, and with one and replace=true) copies the field unchanged into
\* changes, Validate on what it returned reports "invalid field" under the
\* field's name, the request is answered with the 422 validation error, and
\* neither Insert nor Update is called.
C20_UndeclaredFieldRejected ==
    \A r \in Reqs :
        (req[r].method \in {"POST", "PUT", "PATCH"} /\ Undeclared(req[r]) # {}) =>
            /\ \A i \in Prepares(r) :
                  LET p == Prepare(schema, req[r].payload, log[r][i].original,
                                   log[r][i].replace)
                      v == Validate(schema, p.changes,
                                    applyFields(req[r].target, p.base))
                  IN  /\ ~p.panic
                      /\ \A f \in Undeclared(req[r]) :
                            /\ Slot(p.changes, f) = req[r].payload[f]
                            /\ HasErr(v.errs, f, Msg("invalid field"))
                      /\ Over(r) => /\ Logged(r, DidValidate(v.errs))
                                    /\ LastSent(log[r]) = SendError(ValidationError)
            /\ ItemWrites(r) = {}

\* A PUT on an existing item, with a field the schema does not declare, was
\* prepared in replace mode and answered with the 422 validation error.
C20_Witness ==
    \E r \in Reqs :
        /\ Over(r)
        /\ req[r].method = "PUT"
        /\ Undeclared(req[r]) # {}
        /\ \E i \in Prepares(r) : log[r][i].replace
        /\ LastSent(log[r]) = SendError(ValidationError)
        /\ ItemWrites(r) = {}

\* The leaf fields without a hook that a schema declares.
PlainLeaves(s) ==
    {f \in DOMAIN s.Fields :
        /\ ~HasSchema(s.Fields[f])
        /\ s.Fields[f].OnInit = NoHook /\ s.Fields[f].OnUpdate = NoHook}

\* C21 as claimed, at one level of a new document: a field the payload
\* holds, whatever its value, an explicit null included, is copied into
\* changes and has nothing in base; a field it omits has its Default, if
\* any, in base and nothing in changes, and is in neither map otherwise.
CreatedVerbatim(s, payload, changes, base) ==
    \A f \in PlainLeaves(s) :
        IF f \in DOMAIN payload
        THEN Slot(changes, f) = payload[f] /\ f \notin DOMAIN base
        ELSE /\ f \notin DOMAIN changes
             /\ Slot(base, f) = IF s.Fields[f].Default # Nil
                                THEN s.Fields[f].Default ELSE Absent

\* C21, amended, at one level of a new document: a field the payload holds
\* with a value other than null is copied into changes and has nothing in
\* base; a field it omits or holds as an explicit null has its Default, if
\* any, in base and nothing in changes, and is in neither map otherwise.
CreatedNonNull(s, payload, changes, base) ==
    \A f \in PlainLeaves(s) :
        IF f \in DOMAIN payload /\ payload[f] # Nil
        THEN Slot(changes, f) = payload[f] /\ f \notin DOMAIN base
        ELSE /\ f \notin DOMAIN changes
             /\ Slot(base, f) = IF s.Fields[f].Default # Nil
                                THEN s.Fields[f].Default ELSE Absent

\* The new document holds a sub-document under s, or nothing.
SubCreated ==
    /\ IsNested(schema)
    /\ "s" \in DOMAIN call.payload => IsDict(call.payload["s"])

\* C21 as claimed: on creation (no original), for every declared leaf field
\* without a hook, of the schema and of a sub-schema: a field present in the
\* payload, whatever its value (an explicit null included), is copied
\* verbatim into changes and gets nothing in base; an absent field with a
\* Default gets the default in base and nothing in changes; any other field
\* is in neither map.
C21_CreationVerbatim ==
    call.op = "create" =>
        /\ CreatedVerbatim(schema, call.payload, call.changes, call.base)
        /\ SubCreated =>
              CreatedVerbatim(schema.Fields["s"].Schema, SubOf(call.payload),
                              SubOf(call.changes), SubOf(call.base))

\* C21, amended: on creation (no original), for every declared leaf field
\* without a hook, of the schema and of a sub-schema: a field present in the
\* payload with a value other than null is copied verbatim into changes and
\* gets nothing in base; a field that is absent or an explicit null is
\* treated as omitted: with a Default it gets the default in base and
\* nothing in changes, and otherwise it is in neither map.
C21_CreationNullOmitted ==
    call.op = "create" =>
        /\ CreatedNonNull(schema, call.payload, call.changes, call.base)
        /\ SubCreated =>
              CreatedNonNull(schema.Fields["s"].Schema, SubOf(call.payload),
                             SubOf(call.changes), SubOf(call.base))

\* A new document submitted an explicit null for a field with a Default: the
\* default is in base and changes holds nothing for the field.
C21_Witness ==
    \E f \in PlainLeaves(schema) :
        /\ call.op = "create"
        /\ f \in DOMAIN call.payload /\ call.payload[f] = Nil
        /\ schema.Fields[f].Default # Nil
        /\ f \notin DOMAIN call.changes
        /\ Slot(call.base, f) = schema.Fields[f].Default

\* The Find calls of r.
Finds(r) == {i \in 1 .. Len(log[r]) : log[r][i].ev = "Find"}

\* r is a collection GET or HEAD.
ListRead(r) == req[r].target = "list" /\ req[r].method \in {"GET", "HEAD"}

\* The page and the page size the client's parameters and the resource's
\* default call for.
ClientPage(q) == IF "n" \in DOMAIN q.page THEN q.page.n ELSE 1
ClientPerPage(c, q) ==
    IF "n" \in DOMAIN q.limit THEN q.limit.n
    ELSE IF c.PaginationDefaultLimit > 0 THEN c.PaginationDefaultLimit
    ELSE -1

\* C22 as claimed: a collection GET or HEAD with well-formed parameters hands
\* Find the client's page, or 1 when there is none, and as perPage the
\* client's limit, else the resource's default page size, else -1.
C22_FindGetsClientPaging ==
    \A r \in Reqs :
        (ListRead(r) /\ req[r].page # BadParam /\ req[r].limit # BadParam) =>
            \A i \in Finds(r) :
                /\ log[r][i].page = ClientPage(req[r])
                /\ log[r][i].perPage = ClientPerPage(conf, req[r])

\* C22, amended: a collection GET with well-formed parameters hands Find the
\* client's page, or 1 when there is none, and as perPage the client's limit,
\* else the resource's default page size, else -1; a collection HEAD reads
\* neither parameter and hands Find page 1 and perPage 0.
C22_FindPaging ==
    \A r \in Reqs :
        ListRead(r) =>
            \A i \in Finds(r) :
                IF req[r].method = "HEAD"
                THEN log[r][i].page = 1 /\ log[r][i].perPage = 0
                ELSE (req[r].page # BadParam /\ req[r].limit # BadParam) =>
                         /\ log[r][i].page = ClientPage(req[r])
                         /\ log[r][i].perPage = ClientPerPage(conf, req[r])

\* A collection GET with a page and no limit, on a resource with a default
\* page size, handed Find that page and the default size and sent the list.
C22_Witness ==
    \E r \in Reqs :
        /\ Over(r)
        /\ req[r].target = "list" /\ req[r].method = "GET"
        /\ req[r].limit = NoParam
        /\ "n" \in DOMAIN req[r].page /\ req[r].page.n # 1
        /\ conf.PaginationDefaultLimit > 0
        /\ Logged(r, CallFind(TRUE, req[r].page.n, conf.PaginationDefaultLimit))
        /\ LastSent(log[r]).ev = "sendList"

\* The last round validated a document whose sub-document under s broke a
\* size bound of the sub-schema.
SubSizeViolation ==
    /\ call.op # "none" /\ ~call.panic
    /\ IsNested(schema)
    /\ "s" \in DOMAIN mergeDoc(call.changes, call.base)
    /\ IsDict(mergeDoc(call.changes, call.base)["s"])
    /\ \/ HasErr(SubResult.errs, RootKey,
                 [msg |-> "has fewer properties than", n |-> schema.Fields["s"].Schema.MinLen])
       \/ HasErr(SubResult.errs, RootKey,
                 [msg |-> "has more properties than", n |-> schema.Fields["s"].Schema.MaxLen])

\* C23: when the sub-document of the nested-schema field has fewer fields
\* than the sub-schema's MinLen or more than its MaxLen, the root Validate
\* returns no document.
C23_SubSizeViolationFailsRoot == SubSizeViolation => call.res.isNil

====
